---------------------------- MODULE Spec2Model ----------------------------
(***************************************************************************)
(* PDFiG object store: the cross-reference (xref) slot table, the object   *)
(* number allocator, the write path and the xref serializer of             *)
(* src/unnamed/part_002 (type file).                                       *)
(*                                                                         *)
(* Slot i of the Go array f.xref is xref[i+1] here (TLA+ sequences start   *)
(* at 1); At(x, i) hides the shift.  The buffered writer (bufio.Writer)    *)
(* and the underlying os.File are separate: wbuf holds what has been       *)
(* written to f.writer and not yet flushed, disk what reached the file.    *)
(* A Go panic is recorded in last.status and leaves the state as it was    *)
(* at the point of the panic.                                              *)
(***************************************************************************)
EXTENDS Integers, Sequences, FiniteSets, TLC

VARIABLES
    xref,      \* f.xref: the slot table
    disk,      \* the bytes that reached f.file, as a sequence of records
    wbuf,      \* f.writer: records buffered and not yet flushed
    werr,      \* f.writer's sticky error (set by a failed flush)
    fopen,     \* f.file is open
    last,      \* the last call: [op, number, generation, status]
    reserved,  \* history: ObjectNumbers returned by ReserveObjectNumber since the last DeleteObject that returned
    written,   \* history: ObjectNumbers written by AddObjectAt since the last DeleteObject that returned
    calls,     \* history: number of calls made that did not panic
    wpc, ws, wl \* position and loop variables (s, l) of a stepwise writeXref

vars == <<xref, disk, wbuf, werr, fopen, last, reserved, written, calls, wpc, ws, wl>>

----------------------------------------------------------------------------
(* Bounds of the model *)

MaxCalls == 5       \* at most this many calls return without a panic
MaxXrefLen == 5     \* tables of the serializer specification have at most this many slots

(* Program constants *)

Sentinel == 65535   \* generation of a retired slot, and of slot 0
HeaderLen == 9      \* len("%PDF-1.4\n")
EntryLen == 20      \* len of "%010d %05d %c \n"

Values == {"null"}   \* the serialized Null object

----------------------------------------------------------------------------
(* The slot table *)

Entry(bo, g, u, d) == [byteOffset |-> bo, generation |-> g, inUse |-> u, dirty |-> d]

Size(x) == Len(x)

At(x, i) == x[i + 1]

SetAt(x, i, e) == [x EXCEPT ![i + 1] = e]

createInitialXref == << Entry(0, Sentinel, FALSE, TRUE) >>

----------------------------------------------------------------------------
(* Output records and their byte lengths *)

Rec(k, a, b, c) == [k |-> k, a |-> a, b |-> b, c |-> c]

HeaderRec == Rec("header", 0, 0, "%PDF-1.4")

Digits(n) ==
    IF n < 10 THEN 1 ELSE IF n < 100 THEN 2 ELSE IF n < 1000 THEN 3
    ELSE IF n < 10000 THEN 4 ELSE 5

SerializeLen(v) == IF v = "null" THEN 4 ELSE 2

ObjRec(n, g, v) == Rec("obj", n, g, v)

RecLen(r) ==
    CASE r.k = "header" -> HeaderLen
      [] r.k = "obj"    -> Digits(r.a) + 1 + Digits(r.b) + 5 + SerializeLen(r.c) + 8
      [] r.k = "xref"   -> 5
      [] r.k = "seg"    -> Digits(r.a) + 1 + Digits(r.b) + 1
      [] r.k = "entry"  -> EntryLen

RECURSIVE ByteLen(_)
ByteLen(s) == IF s = << >> THEN 0 ELSE RecLen(Head(s)) + ByteLen(Tail(s))

EntrySerialize(e) == Rec("entry", e.byteOffset, e.generation, IF e.inUse THEN "n" ELSE "f")

----------------------------------------------------------------------------
(* bufio.Writer over os.File *)

\* what a write to f.writer leaves in the buffer
BufWrite(buf, err, recs) == IF err THEN buf ELSE buf \o recs

\* f.writer.Flush(): the file after the flush
FlushDisk(d, buf, err, open) == IF ~err /\ open THEN d \o buf ELSE d

\* f.writer.Flush(): the buffer after the flush
FlushBuf(buf, err, open) == IF ~err /\ open THEN << >> ELSE buf

\* f.writer.Flush(): the sticky error after the flush
FlushErr(buf, err, open) == err \/ (buf # << >> /\ ~open)

\* a Close that leaves the file open
FileCloseLeak(open) == open

\* f.file.Close(): whether the file is open afterwards
FileClose(open) == FALSE

\* f.file.Seek(0,1) with the error dropped: the position, 0 on a closed file
SeekPosition(d, open) == IF open THEN ByteLen(d) ELSE 0

----------------------------------------------------------------------------
(* ReserveObjectNumber *)

RECURSIVE ScanFrom(_, _)
ScanFrom(x, i) ==
    IF i < Size(x) /\ At(x, i).generation < Sentinel /\ At(x, i).inUse
    THEN ScanFrom(x, i + 1)
    ELSE i

nextUnused(x) == ScanFrom(x, 1)

\* a ReserveObjectNumber whose appended slot is clean
ReserveXrefClean(x) ==
    LET n == nextUnused(x) IN
    IF n >= Size(x)
    THEN Append(x, Entry(0, 0, TRUE, FALSE))
    ELSE LET x1 == SetAt(x, 0, [At(x, 0) EXCEPT !.byteOffset = At(x, n).byteOffset])
         IN  SetAt(x1, n, [At(x1, n) EXCEPT !.inUse = TRUE])

\* a ReserveObjectNumber that appends a slot whatever the scan finds
ReserveXrefAppend(x) == Append(x, Entry(0, 0, TRUE, TRUE))

ReserveXref(x) ==
    LET n == nextUnused(x) IN
    IF n >= Size(x)
    THEN Append(x, Entry(0, 0, TRUE, TRUE))
    ELSE LET x1 == SetAt(x, 0, [At(x, 0) EXCEPT !.byteOffset = At(x, n).byteOffset])
         IN  SetAt(x1, n, [At(x1, n) EXCEPT !.inUse = TRUE])

ReserveResult(x) ==
    LET n == nextUnused(x) IN
    [number |-> n, generation |-> IF n >= Size(x) THEN 0 ELSE At(x, n).generation]

----------------------------------------------------------------------------
(* DeleteObject *)

DeleteStatus(x, n, g) ==
    IF g # At(x, n).generation THEN "GenerationMismatch" ELSE "ok"

\* a DeleteObject body whose generation wraps as an unguarded uint16 increment does
DeleteBodyWrap(x, n) ==
    LET x1 == SetAt(x, n, [At(x, n) EXCEPT !.byteOffset = At(x, 0).byteOffset])
        x2 == SetAt(x1, 0, [At(x1, 0) EXCEPT !.byteOffset = n])
        e  == At(x2, n)
    IN  SetAt(x2, n, [e EXCEPT !.generation = (e.generation + 1) % (Sentinel + 1),
                               !.inUse = FALSE, !.dirty = TRUE])

\* the table after the body of DeleteObject (lines 138-147), entry aliasing slot 0 when n = 0
DeleteBody(x, n) ==
    LET x1 == SetAt(x, n, [At(x, n) EXCEPT !.byteOffset = At(x, 0).byteOffset])
        x2 == SetAt(x1, 0, [At(x1, 0) EXCEPT !.byteOffset = n])
        e  == At(x2, n)
        g2 == IF e.generation < Sentinel THEN e.generation + 1 ELSE e.generation
    IN  SetAt(x2, n, [e EXCEPT !.generation = g2, !.inUse = FALSE, !.dirty = TRUE])

\* a DeleteObject that checks the generation after it has changed the table
DeleteXrefUnchecked(x, n, g) == DeleteBody(x, n)

DeleteXref(x, n, g) ==
    IF DeleteStatus(x, n, g) = "ok" THEN DeleteBody(x, n) ELSE x

----------------------------------------------------------------------------
(* AddObjectAt *)

AddStatus(x, n, g) ==
    IF At(x, n).byteOffset # 0 THEN "AlreadyWritten"
    ELSE IF At(x, n).generation # g THEN "GenerationMismatch"
    ELSE "ok"

AddXref(x, n, g, pos) ==
    IF AddStatus(x, n, g) = "ok"
    THEN SetAt(x, n, [At(x, n) EXCEPT !.byteOffset = pos])
    ELSE x

----------------------------------------------------------------------------
(* writeXref *)

RECURSIVE SkipClean(_, _)
SkipClean(x, i) == IF i < Size(x) /\ ~At(x, i).dirty THEN SkipClean(x, i + 1) ELSE i

RECURSIVE CountDirty(_, _)
CountDirty(x, i) == IF i < Size(x) /\ At(x, i).dirty THEN 1 + CountDirty(x, i + 1) ELSE 0

\* a nextSegment that runs each segment to the end of the table
nextSegmentToEnd(x, start) ==
    LET nextStart == SkipClean(x, start) IN << nextStart, Size(x) - nextStart >>

\* <<nextStart, length>>
nextSegment(x, start) ==
    LET nextStart == SkipClean(x, start) IN << nextStart, CountDirty(x, nextStart) >>

SegmentRecs(x, s, l) ==
    << Rec("seg", s, l, "") >> \o [k \in 1..l |-> EntrySerialize(At(x, s + k - 1))]

RECURSIVE SegmentsFrom(_, _)
SegmentsFrom(x, sl) ==
    IF sl[1] < Size(x)
    THEN SegmentRecs(x, sl[1], sl[2]) \o SegmentsFrom(x, nextSegment(x, sl[1] + sl[2]))
    ELSE << >>

XrefKeyword == Rec("xref", 0, 0, "")

writeXref(x) == << XrefKeyword >> \o SegmentsFrom(x, nextSegment(x, 0))

----------------------------------------------------------------------------
(* The state after construction.  NewFile leaves the table with slot 0     *)
(* alone.  AgedXref(g) is the table of a new file after g rounds of        *)
(* ReserveObjectNumber and DeleteObject of the returned number (round k    *)
(* reserves (1, k-1) and deletes it); no model run could step through the  *)
(* 65534 rounds that bring slot 1 next to the sentinel, so the aged tables *)
(* are initial states.                                                     *)

AgedGens == {Sentinel - 1, Sentinel}

AgedXref(g) == << Entry(1, Sentinel, FALSE, TRUE), Entry(0, g, FALSE, TRUE) >>

Call(op, n, g, st) == [op |-> op, number |-> n, generation |-> g, status |-> st]

NewFile ==
    /\ xref = createInitialXref
    /\ last = Call("NewFile", 0, 0, "ok")

AgedFile ==
    \E g \in AgedGens :
        /\ xref = AgedXref(g)
        /\ last = Call("DeleteObject", 1, g - 1, "ok")

Init ==
    /\ NewFile \/ AgedFile
    /\ disk = << HeaderRec >>
    /\ wbuf = << >>
    /\ werr = FALSE
    /\ fopen = TRUE
    /\ reserved = {}
    /\ written = {}
    /\ calls = 0
    /\ wpc = "idle"
    /\ ws = 0
    /\ wl = 0

----------------------------------------------------------------------------
(* Operations *)

Emitted == disk \o wbuf

\* generations a caller may present for slot n: the stored one and the one before it
GenChoices(x, n) ==
    {g \in {At(x, n).generation - 1, At(x, n).generation} : g >= 0}

ReserveObjectNumber ==
    /\ xref' = ReserveXref(xref)
    /\ last' = Call("ReserveObjectNumber", ReserveResult(xref).number,
                    ReserveResult(xref).generation, "ok")
    /\ reserved' = reserved \cup {ReserveResult(xref)}
    /\ UNCHANGED <<disk, wbuf, werr, fopen, written, wpc, ws, wl>>

\* the write path of AddObjectAt from table x, for an accepted (n, g)
WriteAccepted(x, n, g, v) ==
    /\ xref' = AddXref(x, n, g, SeekPosition(FlushDisk(disk, wbuf, werr, fopen), fopen))
    /\ disk' = FlushDisk(disk, wbuf, werr, fopen)
    /\ werr' = FlushErr(wbuf, werr, fopen)
    /\ wbuf' = BufWrite(FlushBuf(wbuf, werr, fopen), FlushErr(wbuf, werr, fopen),
                        << ObjRec(n, g, v) >>)
    /\ written' = written \cup {[number |-> n, generation |-> g]}

AddObjectAt(n, g, v) ==
    /\ last' = Call("AddObjectAt", n, g, AddStatus(xref, n, g))
    /\ IF AddStatus(xref, n, g) = "ok"
       THEN WriteAccepted(xref, n, g, v)
       ELSE UNCHANGED <<xref, disk, wbuf, werr, written>>
    /\ UNCHANGED <<fopen, reserved, wpc, ws, wl>>

AddObject(v) ==
    LET on == ReserveResult(xref)
        x1 == ReserveXref(xref)
    IN  /\ last' = Call("AddObject", on.number, on.generation,
                        AddStatus(x1, on.number, on.generation))
        /\ reserved' = reserved \cup {on}
        /\ IF AddStatus(x1, on.number, on.generation) = "ok"
           THEN WriteAccepted(x1, on.number, on.generation, v)
           ELSE /\ xref' = x1
                /\ UNCHANGED <<disk, wbuf, werr, written>>
        /\ UNCHANGED <<fopen, wpc, ws, wl>>

DeleteObject(n, g) ==
    /\ xref' = DeleteXref(xref, n, g)
    /\ last' = Call("DeleteObject", n, g, DeleteStatus(xref, n, g))
    /\ reserved' = IF DeleteStatus(xref, n, g) = "ok" THEN {} ELSE reserved
    /\ written' = IF DeleteStatus(xref, n, g) = "ok" THEN {} ELSE written
    /\ UNCHANGED <<disk, wbuf, werr, fopen, wpc, ws, wl>>

Close ==
    /\ disk' = FlushDisk(disk, BufWrite(wbuf, werr, writeXref(xref)), werr, fopen)
    /\ wbuf' = FlushBuf(BufWrite(wbuf, werr, writeXref(xref)), werr, fopen)
    /\ werr' = FlushErr(BufWrite(wbuf, werr, writeXref(xref)), werr, fopen)
    /\ fopen' = FileClose(fopen)
    /\ last' = Call("Close", 0, 0, "ok")
    /\ UNCHANGED <<xref, reserved, written, wpc, ws, wl>>

\* a call that returns is counted, and the model stops after MaxCalls of them;
\* a call that panics changes last alone
Counted(call) ==
    /\ call
    /\ calls' = IF last'.status = "ok" \/ last'.op = "AddObject" THEN calls + 1 ELSE calls
    /\ calls' <= MaxCalls

Next ==
    \/ Counted(ReserveObjectNumber)
    \/ \E n \in 0..(Size(xref) - 1) : \E g \in GenChoices(xref, n) : \E v \in Values :
           Counted(AddObjectAt(n, g, v))
    \/ \E v \in Values : Counted(AddObject(v))
    \/ \E n \in 0..(Size(xref) - 1) : \E g \in GenChoices(xref, n) :
           Counted(DeleteObject(n, g))
    \/ Counted(Close)

Spec == Init /\ [][Next]_vars

----------------------------------------------------------------------------
(* The serializer alone: writeXref run one loop iteration at a time over   *)
(* tables with every pattern of dirty flags.                               *)

DirtyTable(f) ==
    [i \in DOMAIN f |->
        IF i = 1 THEN Entry(0, Sentinel, FALSE, f[i]) ELSE Entry(0, 0, TRUE, f[i])]

DirtyTables ==
    UNION {{DirtyTable(f) : f \in [1..len -> BOOLEAN]} : len \in 1..MaxXrefLen}

InitXref ==
    /\ xref \in DirtyTables
    /\ last = Call("NewFile", 0, 0, "ok")
    /\ disk = << HeaderRec >>
    /\ wbuf = << >>
    /\ werr = FALSE
    /\ fopen = TRUE
    /\ reserved = {}
    /\ written = {}
    /\ calls = 0
    /\ wpc = "start"
    /\ ws = 0
    /\ wl = 0

\* line 207 and the loop's initial statement
XrefBegin ==
    /\ wpc = "start"
    /\ wbuf' = BufWrite(wbuf, werr, << XrefKeyword >>)
    /\ ws' = nextSegment(xref, 0)[1]
    /\ wl' = nextSegment(xref, 0)[2]
    /\ wpc' = "loop"
    /\ UNCHANGED <<xref, disk, werr, fopen, last, reserved, written, calls>>

\* one iteration of the loop: its body and its post statement
XrefSegment ==
    /\ wpc = "loop"
    /\ ws < Size(xref)
    /\ wbuf' = BufWrite(wbuf, werr, SegmentRecs(xref, ws, wl))
    /\ ws' = nextSegment(xref, ws + wl)[1]
    /\ wl' = nextSegment(xref, ws + wl)[2]
    /\ UNCHANGED <<xref, disk, werr, fopen, last, reserved, written, calls, wpc>>

\* the loop's condition fails
XrefEnd ==
    /\ wpc = "loop"
    /\ ws >= Size(xref)
    /\ wpc' = "done"
    /\ UNCHANGED <<xref, disk, wbuf, werr, fopen, last, reserved, written, calls, ws, wl>>

NextXref == XrefBegin \/ XrefSegment \/ XrefEnd

SpecXref == InitXref /\ [][NextXref]_vars /\ WF_vars(NextXref)

----------------------------------------------------------------------------
(* Properties.  The acting operation of a step is read from last'.op: every *)
(* operation records its own name there.                                    *)

Handle(c) == [number |-> c.number, generation |-> c.generation]

Reserving(c) == c.op \in {"ReserveObjectNumber", "AddObject"}

\* C1 (uniqueness): an ObjectNumber returned by ReserveObjectNumber was not
\* returned by an earlier ReserveObjectNumber since the last DeleteObject.
C1_Uniqueness ==
    [][(calls' # calls /\ last'.op = "ReserveObjectNumber")
          => Handle(last') \notin reserved]_vars

\* C2 (retirement): a slot whose generation is the sentinel is not returned by
\* a reservation and does not go from free to in use.
C2_Retirement ==
    [][\A i \in 1..(Size(xref) - 1) :
          At(xref, i).generation = Sentinel
             => /\ ~(calls' # calls /\ Reserving(last') /\ last'.number = i)
                /\ (At(xref', i).inUse => At(xref, i).inUse)]_vars

\* C3 (reuse after release): a ReserveObjectNumber that directly follows a
\* successful DeleteObject of (n, g), g + 1 below the sentinel, returns (n, g + 1).
C3_ReuseAfterRelease ==
    [][(/\ last.op = "DeleteObject" /\ last.status = "ok"
        /\ last.generation + 1 < Sentinel
        /\ calls' # calls /\ last'.op = "ReserveObjectNumber")
          => Handle(last') = [number |-> last.number, generation |-> last.generation + 1]]_vars

\* C4 (stale write): AddObjectAt with a generation older than the slot's fails
\* with GenerationMismatch; stated for the case the claim names, a freed slot
\* whose byteOffset is a free-list link (the index of a slot).
C4_StaleWrite ==
    [][(/\ last'.op = "AddObjectAt" /\ last'.number >= 1
        /\ ~At(xref, last'.number).inUse
        /\ At(xref, last'.number).byteOffset < Size(xref)
        /\ last'.generation < At(xref, last'.number).generation)
          => last'.status = "GenerationMismatch"]_vars

\* C5 (stale release): DeleteObject with a generation other than the slot's
\* fails with GenerationMismatch, and so does the second of two DeleteObject
\* calls with the same ObjectNumber of a slot other than slot 0.
C5_StaleRelease ==
    [][last'.op = "DeleteObject"
          => /\ last'.generation # At(xref, last'.number).generation
                   => last'.status = "GenerationMismatch"
             /\ (/\ last.op = "DeleteObject" /\ last.status = "ok"
                 /\ Handle(last') = Handle(last) /\ last.number >= 1)
                   => last'.status = "GenerationMismatch"]_vars

\* C6 (single assignment): on an open file, AddObjectAt with an ObjectNumber
\* written since the last DeleteObject fails with AlreadyWritten.
C6_SingleAssignment ==
    [][(/\ fopen /\ last'.op = "AddObjectAt"
        /\ [number |-> last'.number, generation |-> last'.generation] \in written)
          => last'.status = "AlreadyWritten"]_vars

XrefCount(d) == Cardinality({i \in 1..Len(d) : d[i].k = "xref"})

C8_ClosedAbsorbing ==
    [][~fopen
          => /\ ~fopen'
             /\ last'.op # "Close"
                   => (last'.status = "AlreadyClosed" /\ xref' = xref /\ disk' = disk)]_vars

\* C9 (failure atomicity): an AddObjectAt or DeleteObject that fails leaves the
\* table, the file and the writer's buffer as they are; a failing AddObjectAt
\* inside AddObject leaves the table as its ReserveObjectNumber left it.
C9_FailureAtomicity ==
    [][last'.status \in {"GenerationMismatch", "AlreadyWritten"}
          => /\ disk' = disk /\ wbuf' = wbuf /\ werr' = werr
             /\ last'.op \in {"AddObjectAt", "DeleteObject"} => xref' = xref
             /\ last'.op = "AddObject" => xref' = ReserveXref(xref)]_vars

\* a DeleteObject with a stale generation has failed on a table with a written slot
C9_Witness ==
    /\ last.op = "DeleteObject" /\ last.status = "GenerationMismatch"
    /\ last.number >= 1
    /\ At(xref, last.number).generation = last.generation + 1
    /\ \E i \in 1..(Size(xref) - 1) : At(xref, i).inUse /\ At(xref, i).byteOffset >= HeaderLen

IsSeg(r) == r.k = "seg"

\* the <<start, count>> of the segment headers of an output, in order
SegList(out) == [k \in DOMAIN SelectSeq(out, IsSeg) |->
                    << SelectSeq(out, IsSeg)[k].a, SelectSeq(out, IsSeg)[k].b >>]

RECURSIVE Layout(_, _)
Layout(x, segs) ==
    IF segs = << >> THEN << >>
    ELSE << Rec("seg", segs[1][1], segs[1][2], "") >>
         \o [k \in 1..segs[1][2] |-> EntrySerialize(At(x, segs[1][1] + k - 1))]
         \o Layout(x, Tail(segs))

Covers(seg, i) == seg[1] <= i /\ i < seg[1] + seg[2]

IsDirty(x, i) == i >= 0 /\ i < Size(x) /\ At(x, i).dirty

Segmented(x, out) ==
    LET segs == SegList(out) IN
    /\ out = << XrefKeyword >> \o Layout(x, segs)
    /\ \A k \in DOMAIN segs :
          /\ segs[k][2] >= 1
          /\ \A i \in segs[k][1]..(segs[k][1] + segs[k][2] - 1) : IsDirty(x, i)
          /\ ~IsDirty(x, segs[k][1] - 1)
          /\ ~IsDirty(x, segs[k][1] + segs[k][2])
          /\ k > 1 => segs[k][1] > segs[k - 1][1] + segs[k - 1][2]
    /\ \A i \in 0..(Size(x) - 1) :
          IsDirty(x, i) => Cardinality({k \in DOMAIN segs : Covers(segs[k], i)}) = 1
    /\ (\A i \in 0..(Size(x) - 1) : ~IsDirty(x, i)) => out = << XrefKeyword >>

\* C10 (index segmentation): writeXref ends, and what it has written then is
\* the keyword and the maximal runs of dirty slots, in ascending order, each
\* dirty slot in one segment and no other slot in any; it is what the
\* one-step writeXref of Close writes.
C10_IndexSegmentation ==
    /\ [](wpc = "done" => (Segmented(xref, wbuf) /\ wbuf = writeXref(xref)))
    /\ <>(wpc = "done")

\* writeXref has ended on a table with a clean slot between two dirty runs
C10_Witness ==
    /\ wpc = "done"
    /\ Len(SegList(wbuf)) = 2
    /\ ~At(xref, 0).dirty
    /\ \E i \in 1..(Size(xref) - 1) : ~At(xref, i).dirty /\ IsDirty(xref, i - 1) /\ IsDirty(xref, i + 1)


\* the records a step has added to what the program has emitted
Appended == SubSeq(Emitted', Len(Emitted) + 1, Len(Emitted'))

\* the slot an index record at position j of the file stands for
SlotOnFile(d, j) ==
    LET p == CHOOSE q \in 1..j :
                 d[q].k = "seg" /\ \A r \in (q + 1)..j : d[r].k = "entry"
    IN  d[p].a + (j - p - 1)

\* slot i has a record in the file's index, and the record is the slot as it is
SameAsOnFile(d, x, i) ==
    \E j \in 1..Len(d) :
        /\ d[j].k = "entry"
        /\ SlotOnFile(d, j) = i
        /\ d[j] = EntrySerialize(At(x, i))

\* the file's index has slot i as an in-use slot of generation g
LiveOnFile(d, i, g) ==
    \E j \in 1..Len(d) :
        d[j].k = "entry" /\ SlotOnFile(d, j) = i /\ d[j].b = g /\ d[j].c = "n"

\* C11 (incremental delta): a Close after an earlier Close and one successful
\* DeleteObject since, of a slot n the file's index has as live, every other
\* slot from 1 on being as the file's index has it, emits the keyword and one
\* segment of length 1 with slot n.
C11_IncrementalDelta ==
    [][(/\ ~fopen /\ XrefCount(disk) = 1
        /\ last.op = "DeleteObject" /\ last.status = "ok" /\ last.number >= 1
        /\ LiveOnFile(disk, last.number, last.generation)
        /\ \A i \in 1..(Size(xref) - 1) : i # last.number => SameAsOnFile(disk, xref, i)
        /\ last'.op = "Close")
          => Appended = << XrefKeyword >> \o SegmentRecs(xref, last.number, 1)]_vars

\* C12 (close ordering): when Close has returned, the file is closed and holds
\* the index and, after it, a trailer record.
C12_CloseOrdering ==
    last.op = "Close"
       => /\ ~fopen
          /\ \E i \in 1..Len(disk) : \E j \in (i + 1)..Len(disk) :
                disk[i].k = "xref" /\ disk[j].k = "trailer"

\* C13 (slot 0): slot 0 exists, is not in use, has the sentinel generation,
\* and its byteOffset is 0 or the index of a slot that is free.
C13_SlotZero ==
    /\ Size(xref) >= 1
    /\ ~At(xref, 0).inUse
    /\ At(xref, 0).generation = Sentinel
    /\ \/ At(xref, 0).byteOffset = 0
       \/ /\ At(xref, 0).byteOffset \in 1..(Size(xref) - 1)
          /\ ~At(xref, At(xref, 0).byteOffset).inUse


\* the step is a successful DeleteObject of slot i
Releases(i) ==
    last'.op = "DeleteObject" /\ last'.status = "ok" /\ last'.number = i

\* C14 (generation monotonicity): the table does not shrink; a slot's
\* generation is at most the sentinel and does not decrease; a successful
\* DeleteObject adds 1 to it below the sentinel and leaves it at the sentinel;
\* no other step changes it.
C14_GenerationMonotone ==
    [][/\ Size(xref') >= Size(xref)
       /\ \A i \in 0..(Size(xref') - 1) : At(xref', i).generation \in 0..Sentinel
       /\ \A i \in 0..(Size(xref) - 1) :
             /\ At(xref', i).generation >= At(xref, i).generation
             /\ At(xref', i).generation =
                   IF Releases(i) /\ At(xref, i).generation < Sentinel
                   THEN At(xref, i).generation + 1
                   ELSE At(xref, i).generation]_vars

\* a DeleteObject of a slot at the sentinel has succeeded and left it there,
\* beside a slot that a DeleteObject has moved from 0 to 1
C14_Witness ==
    /\ calls >= 2
    /\ last.op = "DeleteObject" /\ last.status = "ok"
    /\ last.number >= 1 /\ last.generation = Sentinel
    /\ At(xref, last.number).generation = Sentinel
    /\ \E i \in 1..(Size(xref) - 1) : At(xref, i).generation = 1

\* the slots met by following byteOffset from slot i until 0, at most fuel of
\* them; -1 stands for a link that leaves the table or a walk that has not
\* ended after fuel slots
RECURSIVE Walk(_, _, _)
Walk(x, i, fuel) ==
    IF i = 0 THEN << >>
    ELSE IF fuel = 0 \/ i >= Size(x) THEN << -1 >>
    ELSE << i >> \o Walk(x, At(x, i).byteOffset, fuel - 1)

FreeSlots(x) == {i \in 1..(Size(x) - 1) : ~At(x, i).inUse}

WellFormed(x) ==
    LET w == Walk(x, At(x, 0).byteOffset, Size(x)) IN
    /\ \A k \in DOMAIN w : w[k] \in FreeSlots(x)
    /\ \A i \in FreeSlots(x) : Cardinality({k \in DOMAIN w : w[k] = i}) = 1
    /\ (At(x, 0).byteOffset = 0) <=> (FreeSlots(x) = {})
    /\ At(x, 0).byteOffset # 0 => ReserveResult(x).number = At(x, 0).byteOffset

\* C15 (free list): on an open file the byteOffset links from slot 0 pass
\* through every free slot once and through no other slot and end at 0; the
\* head is 0 exactly when no slot is free, and otherwise is the slot the next
\* ReserveObjectNumber returns.  Stated of the steps that start from such a
\* table, no slot from 1 on at the sentinel, and are a ReserveObjectNumber or a
\* successful DeleteObject of a slot from 1 on that is in use: the table is
\* such a table after them.
C15_FreeList ==
    [][(/\ fopen /\ WellFormed(xref)
        /\ \A i \in 1..(Size(xref) - 1) : At(xref, i).generation < Sentinel
        /\ \/ last'.op = "ReserveObjectNumber"
           \/ \E i \in 1..(Size(xref) - 1) : Releases(i) /\ At(xref, i).inUse)
          => WellFormed(xref')]_vars

\* some slot from 1 on stops the scan of ReserveObjectNumber: it is not in use
\* or it is at the sentinel
Reusable(x) ==
    \E i \in 1..(Size(x) - 1) : ~At(x, i).inUse \/ At(x, i).generation = Sentinel

\* C16 (append path): the table never gets shorter.  A ReserveObjectNumber
\* makes it longer exactly when no slot from 1 on is reusable; it then adds the
\* one slot {0, 0, in use, dirty} at the end, changes no other slot and
\* returns (old length, 0).  The same holds of the ReserveObjectNumber inside
\* AddObject.
C16_AppendPath ==
    [][/\ Size(xref') >= Size(xref)
       /\ (calls' # calls /\ last'.op = "ReserveObjectNumber")
             => /\ Size(xref') > Size(xref)
                      => /\ ~Reusable(xref)
                         /\ xref' = Append(xref, Entry(0, 0, TRUE, TRUE))
                         /\ Handle(last') = [number |-> Size(xref), generation |-> 0]
                /\ Reusable(xref) <=> Size(xref') = Size(xref)
       /\ last'.op = "AddObject"
             => /\ Size(xref') > Size(xref)
                      => /\ ~Reusable(xref)
                         /\ Size(xref') = Size(xref) + 1
                         /\ SubSeq(xref', 1, Size(xref)) = xref
                         /\ Handle(last') = [number |-> Size(xref), generation |-> 0]
                /\ Reusable(xref) <=> Size(xref') = Size(xref)]_vars

\* a ReserveObjectNumber has appended slot 2 or later to a table in which an
\* earlier one had taken a freed slot again
C16_Witness ==
    /\ calls >= 1
    /\ last.op = "ReserveObjectNumber"
    /\ last.number = Size(xref) - 1 /\ last.number >= 2 /\ last.generation = 0
    /\ At(xref, last.number) = Entry(0, 0, TRUE, TRUE)
    /\ \E i \in 1..(last.number - 1) :
          At(xref, i).inUse /\ At(xref, i).generation \in 1..(Sentinel - 1)

\* the byte offset at which record j of an output begins
OffsetOf(out, j) == ByteLen(SubSeq(out, 1, j - 1))

\* slot h.number holds the offset at which a framed record of h begins
HoldsOffset(x, out, h) ==
    /\ At(x, h.number).byteOffset # 0
    /\ \E j \in 1..Len(out) :
          /\ out[j] = ObjRec(h.number, h.generation, out[j].c)
          /\ At(x, h.number).byteOffset = OffsetOf(out, j)

\* C17 (offset validity): a slot from 1 on written by AddObjectAt or AddObject,
\* with no DeleteObject since, is in use, has the generation of the write, and its
\* byteOffset is the non-zero offset at which the framed record of that
\* ObjectNumber begins in the output.
C17_OffsetValidity ==
    \A h \in written :
        h.number >= 1 =>
        /\ At(xref, h.number).inUse
        /\ At(xref, h.number).generation = h.generation
        /\ HoldsOffset(xref, Emitted, h)

\* C18 (AddObject never fails): on an open file AddObject succeeds; stated of
\* the case the claim names, a table with two or more free slots.
C18_AddObjectSucceeds ==
    [][(fopen /\ Cardinality(FreeSlots(xref)) >= 2 /\ last'.op = "AddObject")
          => last'.status = "ok"]_vars

\* C19 (AddObjectAt and free slots): an AddObjectAt leaves the byteOffset of
\* every slot that is not in use as it is, and one that names such a slot
\* does not succeed.
C19_WriteLiveOnly ==
    [][last'.op = "AddObjectAt"
          => /\ \A i \in 0..(Size(xref) - 1) :
                   ~At(xref, i).inUse => At(xref', i).byteOffset = At(xref, i).byteOffset
             /\ ~At(xref, last'.number).inUse => last'.status # "ok"]_vars

AllDirty(x) == \A i \in 0..(Size(x) - 1) : At(x, i).dirty

\* the keyword and one segment with every slot of the table
OneSegment(x) == << XrefKeyword >> \o SegmentRecs(x, 0, Size(x))

=============================================================================
